---- MODULE Spec2Model ----
(***************************************************************************)
(* Model of the art-tauri front end: the overlay display controller        *)
(* (ArtOverlay.svelte) and the hotkey recorder (SettingsPanel.svelte).     *)
(* The two components live in separate windows; each has its own           *)
(* specification (Spec for the overlay, RecorderSpec for the recorder).    *)
(* Time is discrete: one tick is the shortest timer of the program, the    *)
(* 200ms retry backoff.                                                    *)
(***************************************************************************)
EXTENDS Integers, Sequences, FiniteSets, TLC

VARIABLES
    \* ---- ArtOverlay.svelte ----
    displayedArtwork,   \* Artwork | null
    nextArtwork,        \* Artwork | null
    showInfo,           \* boolean
    infoTimer,          \* TRUE iff the handle variable infoTimer is non-null
    countdowns,         \* live info-bar timeouts: [left, cur]; cur = the one infoTimer refers to
    loading,            \* boolean
    shown,              \* boolean ("revealed")
    safetyTimeout,      \* ticks left of the safety timeout, Off once fired or cleared
    loadPc,             \* position of loadArtwork: "await", "sleep", "returned", "exhausted"
    attempt,            \* loop variable of loadArtwork
    sleepLeft,          \* ticks left of the retry-backoff timeout
    inflight,           \* load events that may still reach onImageLoaded: their number
                        \* per image id
    destroyed,          \* the $effect cleanup has run
    readyCalls,         \* number of invoke("overlay_ready")
    requests,           \* number of invoke("get_current_artwork")
    lastCmd,            \* last navigation / dismissal command invoked
    notified,           \* number of artwork-changed notifications received
    lastNotified,       \* payload of the last notification received
    idle,               \* ticks since the last qualifying activity (capped)
    listenPc,           \* the promise of listen(): "pending" or "resolved"
    handler,            \* the artwork-changed handler is registered
    \* ---- SettingsPanel.svelte ----
    hotkey,             \* working value
    recording,          \* boolean
    saved,              \* boolean
    error,              \* string
    listeners,          \* number of keydown listeners attached to window by startRecording
    savePending,        \* number of set_hotkey calls awaiting their response
    savedTimers,        \* live "saved" auto-clear timeouts: their number per ticks left
    getPending,         \* the get_hotkey call of onMount awaits its response
    panelDestroyed,     \* the settings panel has been unmounted
    savedAge,           \* ticks since the last successful save (capped), Off when none
                        \* or when startRecording has run since
    lastKey             \* key of the last keydown event the recorder's listeners received

overlayVars == <<displayedArtwork, nextArtwork, showInfo, infoTimer, countdowns, loading,
                 shown, safetyTimeout, loadPc, attempt, sleepLeft, inflight, destroyed,
                 readyCalls, requests, lastCmd, notified, lastNotified, idle, listenPc,
                 handler>>

panelVars == <<hotkey, recording, saved, error, listeners, savePending, savedTimers,
               getPending, panelDestroyed, savedAge, lastKey>>

vars == <<overlayVars, panelVars>>

(***************************************************************************)
(* Bounds of the model                                                     *)
(***************************************************************************)
MaxNotifications == 2
MaxArtworkId == 2
MaxListeners == 2
MaxSaves == 2

(***************************************************************************)
(* Program constants                                                       *)
(***************************************************************************)
InfoMs == 4000
SafetyMs == 3000
RetryMs == 200
Retries == 3
SavedMs == 2000

TickMs == RetryMs
InfoTicks == InfoMs \div TickMs
SafetyTicks == SafetyMs \div TickMs
RetryTicks == RetryMs \div TickMs
SavedTicks == SavedMs \div TickMs

Off == -1

(***************************************************************************)
(* Artwork values.  Identity of an Artwork is its id; ref is the identity  *)
(* of the JavaScript object (each payload is a fresh object).              *)
(***************************************************************************)
ArtworkIds == 1..MaxArtworkId
None == [id |-> 0, ref |-> 0]
LoadRef == -1
Artwork(i, r) == [id |-> i, ref |-> r]

(***************************************************************************)
(* ArtOverlay.svelte                                                       *)
(***************************************************************************)

\* {#if nextArtwork && nextArtwork !== displayedArtwork}: the "next" <img> is rendered
\* (!== on objects compares references)
HasNextImg(n, d) == n /= None /\ n.ref /= d.ref

\* no load event is outstanding
NoLoads == [i \in ArtworkIds |-> 0]

\* The load events that can still reach onImageLoaded after a re-render.  A new <img>
\* starts one decode; re-using the <img> with another src starts a decode of the new
\* image while the load event of the old one may already be queued; Svelte leaves an
\* unchanged src alone.  onload={onImageLoaded} is never detached: an <img> that was
\* removed, or whose component is gone, still delivers the load events it owes.
Rendered(oldN, oldD, newN, newD, fl, gone) ==
    IF gone \/ ~HasNextImg(newN, newD) THEN fl
    ELSE IF HasNextImg(oldN, oldD) /\ newN.id = oldN.id THEN fl
    ELSE [fl EXCEPT ![newN.id] = @ + 1]

\* clearTimeout(infoTimer)
ClearInfoTimer(cs) == {t \in cs : ~t.cur}

\* an earlier timeout the handle no longer refers to
Unreferenced(cs) == {[left |-> t.left, cur |-> FALSE] : t \in cs}

\* resetInfoTimer without "if (infoTimer) clearTimeout(infoTimer)"
resetInfoTimerNoClear ==
    /\ showInfo' = TRUE
    /\ countdowns' = Unreferenced(countdowns) \cup {[left |-> InfoTicks, cur |-> TRUE]}
    /\ infoTimer' = TRUE

resetInfoTimer ==
    /\ showInfo' = TRUE
    /\ countdowns' = Unreferenced(IF infoTimer THEN ClearInfoTimer(countdowns) ELSE countdowns)
                        \cup {[left |-> InfoTicks, cur |-> TRUE]}
    /\ infoTimer' = TRUE

onImageLoaded ==
    /\ displayedArtwork' = nextArtwork
    /\ nextArtwork' = None
    /\ loading' = FALSE
    /\ IF ~shown
          THEN /\ shown' = TRUE
               /\ readyCalls' = readyCalls + 1
          ELSE UNCHANGED <<shown, readyCalls>>

\* listen<Artwork>("artwork-changed", ...): a notification with a fresh payload object
ArtworkChanged(a) ==
    /\ handler
    /\ notified < MaxNotifications
    /\ notified' = notified + 1
    /\ nextArtwork' = Artwork(a, notified + 1)
    /\ lastNotified' = Artwork(a, notified + 1)
    /\ resetInfoTimer
    /\ idle' = 0
    /\ inflight' = Rendered(nextArtwork, displayedArtwork, nextArtwork', displayedArtwork,
                            inflight, destroyed)
    /\ UNCHANGED <<displayedArtwork, loading, shown, safetyTimeout, loadPc, attempt,
                   sleepLeft, destroyed, readyCalls, requests, lastCmd,
                   listenPc, handler>>

\* the loop of loadArtwork with "attempt <= retries" for "attempt < retries"
LoadRetryOneMore ==
    IF attempt < Retries
       THEN /\ loadPc' = "sleep"
            /\ sleepLeft' = RetryTicks
            /\ UNCHANGED attempt
       ELSE /\ loadPc' = "exhausted"
            /\ attempt' = attempt + 1
            /\ UNCHANGED sleepLeft

\* end of one iteration of the loop of loadArtwork without an artwork
LoadRetry ==
    IF attempt < Retries - 1
       THEN /\ loadPc' = "sleep"
            /\ sleepLeft' = RetryTicks
            /\ UNCHANGED attempt
       ELSE /\ loadPc' = "exhausted"
            /\ attempt' = attempt + 1
            /\ UNCHANGED sleepLeft

\* get_current_artwork resolves with an artwork
LoadSuccess(a) ==
    /\ loadPc = "await"
    /\ nextArtwork' = Artwork(a, LoadRef)
    /\ resetInfoTimer
    /\ idle' = 0
    /\ loadPc' = "returned"
    /\ inflight' = Rendered(nextArtwork, displayedArtwork, nextArtwork', displayedArtwork,
                            inflight, destroyed)
    /\ UNCHANGED <<displayedArtwork, loading, shown, safetyTimeout, attempt, sleepLeft,
                   destroyed, readyCalls, requests, lastCmd, notified, lastNotified,
                   listenPc, handler>>

\* get_current_artwork resolves with null, or rejects
LoadFailure ==
    /\ loadPc = "await"
    /\ LoadRetry
    /\ UNCHANGED <<displayedArtwork, nextArtwork, showInfo, infoTimer, countdowns, loading,
                   shown, safetyTimeout, inflight, destroyed, readyCalls, requests,
                   lastCmd, notified, lastNotified, idle,
                   listenPc, handler>>

\* the 200ms timeout of loadArtwork fires: next iteration, next request
RetryWake ==
    /\ loadPc = "sleep"
    /\ sleepLeft = 0
    /\ attempt' = attempt + 1
    /\ requests' = requests + 1
    /\ loadPc' = "await"
    /\ UNCHANGED <<displayedArtwork, nextArtwork, showInfo, infoTimer, countdowns, loading,
                   shown, safetyTimeout, sleepLeft, inflight, destroyed, readyCalls,
                   lastCmd, notified, lastNotified, idle,
                   listenPc, handler>>

\* the load event of image i reaches the next <img>
ImageLoaded(i) ==
    /\ i \in ArtworkIds
    /\ inflight[i] > 0
    /\ onImageLoaded
    /\ inflight' = Rendered(nextArtwork, displayedArtwork, nextArtwork', displayedArtwork',
                            [inflight EXCEPT ![i] = @ - 1], destroyed)
    /\ UNCHANGED <<showInfo, infoTimer, countdowns, safetyTimeout, loadPc, attempt,
                   sleepLeft, destroyed, requests, lastCmd, notified, lastNotified, idle,
                   listenPc, handler>>

\* the callback of a live info-bar timeout
InfoTimeout(t) ==
    /\ t \in countdowns
    /\ t.left = 0
    /\ showInfo' = FALSE
    /\ countdowns' = countdowns \ {t}
    /\ UNCHANGED <<displayedArtwork, nextArtwork, infoTimer, loading, shown, safetyTimeout,
                   loadPc, attempt, sleepLeft, inflight, destroyed, readyCalls, requests,
                   lastCmd, notified, lastNotified, idle,
                   listenPc, handler>>

\* the callback of safetyTimeout without the "if (!shown)" latch
SafetyTimeoutNoLatch ==
    /\ safetyTimeout = 0
    /\ safetyTimeout' = Off
    /\ shown' = TRUE
    /\ readyCalls' = readyCalls + 1
    /\ UNCHANGED <<displayedArtwork, nextArtwork, showInfo, infoTimer, countdowns, loading,
                   loadPc, attempt, sleepLeft, inflight, destroyed, requests, lastCmd,
                   notified, lastNotified, idle,
                   listenPc, handler>>

\* the callback of safetyTimeout with the test inverted: "if (shown)"
SafetyTimeoutInverted ==
    /\ safetyTimeout = 0
    /\ safetyTimeout' = Off
    /\ IF shown
          THEN /\ shown' = TRUE
               /\ readyCalls' = readyCalls + 1
          ELSE UNCHANGED <<shown, readyCalls>>
    /\ UNCHANGED <<displayedArtwork, nextArtwork, showInfo, infoTimer, countdowns, loading,
                   loadPc, attempt, sleepLeft, inflight, destroyed, requests, lastCmd,
                   notified, lastNotified, idle,
                   listenPc, handler>>

\* the callback of safetyTimeout
SafetyTimeout ==
    /\ safetyTimeout = 0
    /\ safetyTimeout' = Off
    /\ IF ~shown
          THEN /\ shown' = TRUE
               /\ readyCalls' = readyCalls + 1
          ELSE UNCHANGED <<shown, readyCalls>>
    /\ UNCHANGED <<displayedArtwork, nextArtwork, showInfo, infoTimer, countdowns, loading,
                   loadPc, attempt, sleepLeft, inflight, destroyed, requests, lastCmd,
                   notified, lastNotified, idle,
                   listenPc, handler>>

Keys == {"Escape", "ArrowRight", " ", "ArrowLeft", "a"}

\* onKeyDown with "loading = true" moved in front of the key tests
KeyDownAlwaysLoading(k) ==
    /\ ~destroyed
    /\ k \in {"Escape", "ArrowRight", " ", "ArrowLeft"}
    /\ loading' = TRUE
    /\ lastCmd' = IF k = "Escape" THEN "dismiss_overlays"
                  ELSE IF k = "ArrowLeft" THEN "prev_artwork" ELSE "next_artwork"
    /\ UNCHANGED <<displayedArtwork, nextArtwork, showInfo, infoTimer, countdowns, shown,
                   safetyTimeout, loadPc, attempt, sleepLeft, inflight, destroyed,
                   readyCalls, requests, notified, lastNotified, idle,
                   listenPc, handler>>

\* onKeyDown of the overlay
KeyDown(k) ==
    /\ ~destroyed
    /\ k \in {"Escape", "ArrowRight", " ", "ArrowLeft"}
    /\ IF k = "Escape"
          THEN /\ lastCmd' = "dismiss_overlays"
               /\ UNCHANGED loading
          ELSE /\ loading' = TRUE
               /\ lastCmd' = IF k = "ArrowLeft" THEN "prev_artwork" ELSE "next_artwork"
    /\ UNCHANGED <<displayedArtwork, nextArtwork, showInfo, infoTimer, countdowns, shown,
                   safetyTimeout, loadPc, attempt, sleepLeft, inflight, destroyed,
                   readyCalls, requests, notified, lastNotified, idle,
                   listenPc, handler>>

\* onMouseMove
MouseMove ==
    /\ ~destroyed
    /\ resetInfoTimer
    /\ idle' = 0
    /\ UNCHANGED <<displayedArtwork, nextArtwork, loading, shown, safetyTimeout, loadPc,
                   attempt, sleepLeft, inflight, destroyed, readyCalls, requests, lastCmd,
                   notified, lastNotified,
                   listenPc, handler>>

\* the promise of listen() resolves with the unlisten function
ListenResolved ==
    /\ listenPc = "pending"
    /\ listenPc' = "resolved"
    /\ UNCHANGED <<displayedArtwork, nextArtwork, showInfo, infoTimer, countdowns, loading,
                   shown, safetyTimeout, loadPc, attempt, sleepLeft, inflight, destroyed,
                   readyCalls, requests, lastCmd, notified, lastNotified, idle, handler>>

\* the cleanup function returned by the $effect; unlisten.then(...) only queues the
\* continuation that will detach the artwork-changed handler
Teardown ==
    /\ ~destroyed
    /\ destroyed' = TRUE
    /\ countdowns' = IF infoTimer THEN ClearInfoTimer(countdowns) ELSE countdowns
    /\ safetyTimeout' = Off
    /\ UNCHANGED <<displayedArtwork, nextArtwork, showInfo, infoTimer, loading, shown,
                   inflight, loadPc, attempt, sleepLeft, readyCalls, requests, lastCmd, notified,
                   lastNotified, idle, listenPc, handler>>

\* the continuation queued by unlisten.then((fn) => fn()) runs once listen() has resolved
Unlisten ==
    /\ destroyed
    /\ listenPc = "resolved"
    /\ handler
    /\ handler' = FALSE
    /\ UNCHANGED <<displayedArtwork, nextArtwork, showInfo, infoTimer, countdowns, loading,
                   shown, safetyTimeout, loadPc, attempt, sleepLeft, inflight, destroyed,
                   readyCalls, requests, lastCmd, notified, lastNotified, idle, listenPc>>

\* 200ms pass; a timeout that is due runs first
Tick ==
    /\ \A t \in countdowns : t.left > 0
    /\ safetyTimeout /= 0
    /\ ~(loadPc = "sleep" /\ sleepLeft = 0)
    /\ countdowns' = {[left |-> t.left - 1, cur |-> t.cur] : t \in countdowns}
    /\ safetyTimeout' = IF safetyTimeout = Off THEN Off ELSE safetyTimeout - 1
    /\ sleepLeft' = IF loadPc = "sleep" THEN sleepLeft - 1 ELSE sleepLeft
    /\ idle' = IF idle < InfoTicks THEN idle + 1 ELSE idle
    /\ UNCHANGED <<displayedArtwork, nextArtwork, showInfo, infoTimer, loading, shown,
                   loadPc, attempt, inflight, destroyed, readyCalls, requests, lastCmd,
                   notified, lastNotified,
                   listenPc, handler>>


(***************************************************************************)
(* SettingsPanel.svelte                                                    *)
(***************************************************************************)

Skip == "skip"

\* key.toUpperCase() on the single characters the model draws
ToUpperCase(k) ==
    CASE k = "a" -> "A"
      [] k = "s" -> "S"
      [] OTHER -> k

\* "Map key to Tauri format"
MapKey(k) ==
    IF k = " " THEN "Space"
    ELSE IF Len(k) = 1 THEN ToUpperCase(k)
    ELSE k

RECURSIVE Join(_)
\* parts.join("+")
Join(parts) ==
    IF Len(parts) = 1 THEN parts[1]
    ELSE parts[1] \o "+" \o Join(Tail(parts))

\* the parts array with Alt pushed before Shift
PartsAltFirst(e) ==
    (IF e.metaKey \/ e.ctrlKey THEN <<"CmdOrCtrl">> ELSE <<>>)
    \o (IF e.altKey THEN <<"Alt">> ELSE <<>>)
    \o (IF e.shiftKey THEN <<"Shift">> ELSE <<>>)
    \o <<MapKey(e.key)>>

\* the parts array built by onKeyDown
Parts(e) ==
    (IF e.metaKey \/ e.ctrlKey THEN <<"CmdOrCtrl">> ELSE <<>>)
    \o (IF e.shiftKey THEN <<"Shift">> ELSE <<>>)
    \o (IF e.altKey THEN <<"Alt">> ELSE <<>>)
    \o <<MapKey(e.key)>>

\* the accelerator onKeyDown computes from a keydown event, Skip for a bare modifier
Normalize(e) ==
    IF e.key \in {"Control", "Shift", "Alt", "Meta"} THEN Skip
    ELSE Join(Parts(e))

KeyEvent(k, c, m, s, a) ==
    [key |-> k, ctrlKey |-> c, metaKey |-> m, shiftKey |-> s, altKey |-> a]

\* the keydown events the recorder is driven with
PanelKeyEvents ==
    { KeyEvent("Control", TRUE, FALSE, FALSE, FALSE),
      KeyEvent("Shift", FALSE, FALSE, TRUE, FALSE),
      KeyEvent("s", FALSE, TRUE, FALSE, FALSE),
      KeyEvent("ArrowUp", FALSE, FALSE, TRUE, TRUE),
      KeyEvent(" ", TRUE, FALSE, FALSE, TRUE),
      KeyEvent("a", FALSE, FALSE, FALSE, FALSE) }

ModifierKeys == {"Control", "Shift", "Alt", "Meta"}

\* every key-press description over the keys the model draws
AllKeyEvents ==
    { KeyEvent(k, c, m, sh, a) :
        k \in ModifierKeys \cup {" ", "a", "s", "1", "ArrowUp", "F5"},
        c \in BOOLEAN, m \in BOOLEAN, sh \in BOOLEAN, a \in BOOLEAN }

\* the hotkey the Settings Service holds, and the message of a rejected set_hotkey
StoredHotkey == "CmdOrCtrl+Shift+A"
RejectMessage == "invalid hotkey"

\* get_hotkey resolves
GetHotkeyResolved ==
    /\ getPending
    /\ getPending' = FALSE
    /\ hotkey' = StoredHotkey
    /\ UNCHANGED <<savedAge, lastKey, recording, saved, error, listeners, savePending, savedTimers,
                   panelDestroyed>>

\* click on the hotkey-display button
startRecording ==
    /\ ~panelDestroyed
    /\ listeners < MaxListeners
    /\ recording' = TRUE
    /\ error' = ""
    /\ saved' = FALSE
    /\ listeners' = listeners + 1
    /\ savedAge' = Off
    /\ UNCHANGED <<lastKey, hotkey, savePending, savedTimers, getPending, panelDestroyed>>

\* onKeyDown with the bare-modifier test placed after the bookkeeping
onKeyDownModifierStops(e) ==
    /\ listeners > 0
    /\ IF Normalize(e) = Skip
          THEN UNCHANGED hotkey
          ELSE hotkey' = Normalize(e)
    /\ recording' = FALSE
    /\ listeners' = 0
    /\ lastKey' = e.key
    /\ UNCHANGED <<savedAge, saved, error, savePending, savedTimers, getPending, panelDestroyed>>

\* onKeyDown without window.removeEventListener
onKeyDownNoRemove(e) ==
    /\ listeners > 0
    /\ IF Normalize(e) = Skip
          THEN UNCHANGED <<hotkey, recording>>
          ELSE /\ hotkey' = Normalize(e)
               /\ recording' = FALSE
    /\ lastKey' = e.key
    /\ UNCHANGED <<listeners, savedAge, saved, error, savePending, savedTimers, getPending,
                   panelDestroyed>>

\* a keydown event on window: every listener attached by startRecording runs onKeyDown,
\* and on a qualifying key each of them removes itself
onKeyDown(e) ==
    /\ listeners > 0
    /\ IF Normalize(e) = Skip
          THEN UNCHANGED <<hotkey, recording, listeners>>
          ELSE /\ hotkey' = Normalize(e)
               /\ recording' = FALSE
               /\ listeners' = 0
    /\ lastKey' = e.key
    /\ UNCHANGED <<savedAge, saved, error, savePending, savedTimers, getPending, panelDestroyed>>

RECURSIVE TimersUpTo(_)
TimersUpTo(t) == IF t < 0 THEN 0 ELSE savedTimers[t] + TimersUpTo(t - 1)

\* the number of setTimeout callbacks of saveHotkey that have not run yet
LiveSavedTimers == TimersUpTo(SavedTicks)

\* click on the save button (disabled={recording || !hotkey}): set_hotkey is invoked
saveHotkey ==
    /\ ~panelDestroyed
    /\ ~recording
    /\ hotkey /= ""
    /\ savePending + LiveSavedTimers < MaxSaves
    /\ savePending' = savePending + 1
    /\ UNCHANGED <<savedAge, lastKey, hotkey, recording, saved, error, listeners, savedTimers, getPending,
                   panelDestroyed>>

\* set_hotkey resolves: the rest of the try block
SaveResolved ==
    /\ savePending > 0
    /\ savePending' = savePending - 1
    /\ saved' = TRUE
    /\ error' = ""
    /\ savedTimers' = [savedTimers EXCEPT ![SavedTicks] = @ + 1]
    /\ savedAge' = 0
    /\ UNCHANGED <<lastKey, hotkey, recording, listeners, getPending, panelDestroyed>>

\* set_hotkey rejects: the catch block
SaveRejected ==
    /\ savePending > 0
    /\ savePending' = savePending - 1
    /\ error' = RejectMessage
    /\ UNCHANGED <<savedAge, lastKey, hotkey, recording, saved, listeners, savedTimers, getPending,
                   panelDestroyed>>

\* the callback of a 2000ms timeout armed by saveHotkey
SavedTimeout ==
    /\ savedTimers[0] > 0
    /\ savedTimers' = [savedTimers EXCEPT ![0] = @ - 1]
    /\ saved' = FALSE
    /\ UNCHANGED <<savedAge, lastKey, hotkey, recording, error, listeners, savePending, getPending,
                   panelDestroyed>>

\* the panel is unmounted; the component registers no cleanup
PanelTeardown ==
    /\ ~panelDestroyed
    /\ panelDestroyed' = TRUE
    /\ UNCHANGED <<savedAge, lastKey, hotkey, recording, saved, error, listeners, savePending, savedTimers,
                   getPending>>

\* 200ms pass in the settings window; a timeout that is due runs first
PanelTick ==
    /\ LiveSavedTimers > 0
    /\ savedTimers[0] = 0
    /\ savedTimers' = [t \in 0..SavedTicks |->
                          IF t < SavedTicks THEN savedTimers[t + 1] ELSE 0]
    /\ savedAge' = IF savedAge /= Off /\ savedAge < SavedTicks THEN savedAge + 1 ELSE savedAge
    /\ UNCHANGED <<lastKey, hotkey, recording, saved, error, listeners, savePending, getPending,
                   panelDestroyed>>

\* the panel's state right after mount: get_hotkey has been invoked
PanelInit ==
    /\ hotkey = ""
    /\ recording = FALSE
    /\ saved = FALSE
    /\ error = ""
    /\ listeners = 0
    /\ savePending = 0
    /\ savedTimers = [t \in 0..SavedTicks |-> 0]
    /\ getPending = TRUE
    /\ panelDestroyed = FALSE
    /\ savedAge = Off
    /\ lastKey = ""

\* the overlay's state right after the $effect has run: the listener is registered,
\* the first request of loadArtwork is issued and the safety timeout is armed
OverlayInit ==
    /\ displayedArtwork = None
    /\ nextArtwork = None
    /\ showInfo = TRUE
    /\ infoTimer = FALSE
    /\ countdowns = {}
    /\ loading = TRUE
    /\ shown = FALSE
    /\ safetyTimeout = SafetyTicks
    /\ loadPc = "await"
    /\ attempt = 0
    /\ sleepLeft = 0
    /\ inflight = NoLoads
    /\ destroyed = FALSE
    /\ readyCalls = 0
    /\ requests = 1
    /\ lastCmd = "none"
    /\ notified = 0
    /\ lastNotified = None
    /\ idle = 0
    /\ listenPc = "pending"
    /\ handler = TRUE

Init == OverlayInit /\ PanelInit

Next ==
    \/ \E a \in ArtworkIds : ArtworkChanged(a) /\ UNCHANGED panelVars
    \/ \E a \in ArtworkIds : LoadSuccess(a) /\ UNCHANGED panelVars
    \/ LoadFailure /\ UNCHANGED panelVars
    \/ RetryWake /\ UNCHANGED panelVars
    \/ \E i \in ArtworkIds : ImageLoaded(i) /\ UNCHANGED panelVars
    \/ \E t \in countdowns : InfoTimeout(t) /\ UNCHANGED panelVars
    \/ SafetyTimeout /\ UNCHANGED panelVars
    \/ \E k \in Keys : KeyDown(k) /\ UNCHANGED panelVars
    \/ MouseMove /\ UNCHANGED panelVars
    \/ ListenResolved /\ UNCHANGED panelVars
    \/ Teardown /\ UNCHANGED panelVars
    \/ Unlisten /\ UNCHANGED panelVars
    \/ Tick /\ UNCHANGED panelVars

Spec == Init /\ [][Next]_vars

RecorderNext ==
    \/ GetHotkeyResolved /\ UNCHANGED overlayVars
    \/ startRecording /\ UNCHANGED overlayVars
    \/ \E e \in PanelKeyEvents : onKeyDown(e) /\ UNCHANGED overlayVars
    \/ saveHotkey /\ UNCHANGED overlayVars
    \/ SaveResolved /\ UNCHANGED overlayVars
    \/ SaveRejected /\ UNCHANGED overlayVars
    \/ SavedTimeout /\ UNCHANGED overlayVars
    \/ PanelTeardown /\ UNCHANGED overlayVars
    \/ PanelTick /\ UNCHANGED overlayVars

RecorderSpec == Init /\ [][RecorderNext]_vars

\* the recorder in capture mode, driven with every key-press description
NormalizerNext ==
    \/ startRecording /\ UNCHANGED overlayVars
    \/ \E e \in AllKeyEvents : onKeyDown(e) /\ UNCHANGED overlayVars

NormalizerSpec == Init /\ [][NormalizerNext]_vars

\* The event loop runs every timeout that is due, and time passes.
FairSpec ==
    /\ Spec
    /\ WF_vars(Tick /\ UNCHANGED panelVars)
    /\ WF_vars(SafetyTimeout /\ UNCHANGED panelVars)
    /\ WF_vars(RetryWake /\ UNCHANGED panelVars)
    /\ WF_vars((\E t \in countdowns : InfoTimeout(t)) /\ UNCHANGED panelVars)

(***************************************************************************)
(* Properties                                                              *)
(***************************************************************************)

\* C1: overlay_ready is invoked at most once, exactly when shown goes from false to
\* true, and shown never goes back to false: the first of {decode-complete, safety
\* timeout} emits the reveal, the later one emits nothing.
C1_RevealOnce ==
    /\ [](readyCalls <= 1 /\ (shown <=> readyCalls = 1))
    /\ [][shown => shown']_vars

\* both the safety timeout and a decode-complete have run, one reveal was emitted
C1_Witness ==
    /\ ~destroyed
    /\ safetyTimeout = Off
    /\ displayedArtwork /= None
    /\ readyCalls = 1

\* C2: a controller that is not torn down is eventually revealed, whatever the
\* backend does (all requests failing, no notification, no image ever decoding).
C2_EventuallyRevealed == <>(shown \/ destroyed)

\* revealed by the safety timeout alone: nothing was ever displayed
C2_Witness ==
    /\ shown
    /\ ~destroyed
    /\ displayedArtwork = None
    /\ loadPc = "exhausted"

\* decoding has settled: nothing is pending and no load event is outstanding
Settled == nextArtwork = None /\ inflight = NoLoads

\* C3: once decoding has settled, the displayed artwork is the artwork (by id) of the
\* last notification received.
C3_LastNotificationDisplayed ==
    (lastNotified /= None /\ Settled) => displayedArtwork.id = lastNotified.id

\* C4: the load event of an image that is no longer the pending one changes neither
\* displayedArtwork, nextArtwork nor loading.
C4_StaleDecodeIgnored ==
    [][\A i \in ArtworkIds :
          (i /= nextArtwork.id /\ ImageLoaded(i))
              => UNCHANGED <<displayedArtwork, nextArtwork, loading>>]_vars

\* C5: a notification whose payload has the id of the displayed artwork leaves
\* nextArtwork empty and starts no decode.
C5_SameIdentityNoCycle ==
    [][\A a \in ArtworkIds :
          (displayedArtwork.id = a /\ nextArtwork = None /\ ArtworkChanged(a))
              => (nextArtwork' = None /\ inflight' = inflight)]_vars

\* C6: at most one key listener is attached, and exactly one while recording.
C6_OneListener == listeners <= 1 /\ (recording => listeners = 1)

\* C7: after teardown of the settings panel no key listener of the recorder is attached.
C7_TeardownDetaches == panelDestroyed => listeners = 0

\* C8: after teardown of the overlay no timer armed by it is live and nothing mutates
\* its state.
C8_QuietAfterTeardown ==
    /\ [](destroyed => (countdowns = {} /\ safetyTimeout = Off /\ loadPc /= "sleep"))
    /\ [][destroyed => UNCHANGED <<displayedArtwork, nextArtwork, showInfo, infoTimer,
                                   loading, shown, requests>>]_vars

\* a qualifying activity: notification, successful initial load, pointer movement
Activity ==
    \/ \E a \in ArtworkIds : ArtworkChanged(a)
    \/ \E a \in ArtworkIds : LoadSuccess(a)
    \/ MouseMove

\* C9: the info bar is visible right after every qualifying activity, it is hidden only
\* when 4000ms have passed since the last activity, and a live countdown always ends
\* 4000ms after the last activity.
C9_InfoBarDebounce ==
    /\ []((~showInfo => idle >= InfoTicks)
          /\ (\A t \in countdowns : t.left = InfoTicks - idle))
    /\ [][Activity => showInfo']_vars

\* the bar was hidden by a countdown that an activity had postponed
C9_Witness ==
    /\ ~showInfo
    /\ idle = InfoTicks
    /\ displayedArtwork /= None
    /\ notified > 1
    /\ safetyTimeout = Off

\* C10: at most 3 requests, none after the one that returned an artwork; when all
\* fail and no notification arrives, nothing is displayed or pending and loading stays.
C10_BoundedInitialLoad ==
    /\ [](/\ requests <= Retries
          /\ (loadPc = "exhausted" => requests = Retries)
          /\ (loadPc = "exhausted" /\ notified = 0
                 => displayedArtwork = None /\ nextArtwork = None /\ loading))
    /\ [][loadPc = "returned" => (requests' = requests /\ loadPc' = "returned")]_vars

\* all three attempts failed, no notification, and the safety timeout has revealed
C10_Witness ==
    /\ loadPc = "exhausted"
    /\ requests = Retries
    /\ notified = 0
    /\ shown
    /\ displayedArtwork = None
    /\ loading

\* C11: a rejected set_hotkey stores the message and leaves the working value and the
\* saved flag alone, and an error is never shown together with saved = true.
C11_RejectedSaveNotSaved ==
    /\ [](error /= "" => ~saved)
    /\ [][SaveRejected => (error' = RejectMessage /\ hotkey' = hotkey /\ saved' = saved)]_vars

\* C12: for 2000ms after the last successful save (and no startRecording since) saved
\* is true, and it is false once those 2000ms are over.
C12_SavedForFullPeriod ==
    /\ (savedAge /= Off /\ savedAge < SavedTicks => saved)
    /\ (savedAge = SavedTicks /\ savedTimers[0] = 0 => ~saved)

\* the accelerator the claim describes for a key press that is no bare modifier
AcceleratorOf(e) ==
    (IF e.ctrlKey \/ e.metaKey THEN "CmdOrCtrl+" ELSE "")
    \o (IF e.shiftKey THEN "Shift+" ELSE "")
    \o (IF e.altKey THEN "Alt+" ELSE "")
    \o (IF e.key = " " THEN "Space"
        ELSE IF Len(e.key) = 1 THEN ToUpperCase(e.key)
        ELSE e.key)

\* C13: a bare modifier yields skip; any other key press yields CmdOrCtrl, Shift, Alt
\* (each iff held, in that order) and the mapped key, joined with "+".
C13_Normalizer ==
    [][\A e \in AllKeyEvents :
          onKeyDown(e) =>
              IF e.key \in ModifierKeys
                 THEN Normalize(e) = Skip /\ hotkey' = hotkey
                 ELSE Normalize(e) = AcceleratorOf(e) /\ hotkey' = AcceleratorOf(e)]_vars

\* all three modifiers and a mapped key were recorded
C13_Witness ==
    /\ hotkey = "CmdOrCtrl+Shift+Alt+Space"
    /\ lastKey = " "
    /\ ~recording

\* C14: a bare-modifier key event while recording changes nothing of the recorder.
C14_SkipIsNoOp ==
    [][\A e \in PanelKeyEvents :
          (recording /\ e.key \in ModifierKeys /\ onKeyDown(e))
              => UNCHANGED <<hotkey, recording, saved, error, listeners>>]_vars

\* a bare modifier was pressed while recording
C14_Witness ==
    /\ recording
    /\ lastKey = "Shift"
    /\ listeners = 1

\* C15: at most one info-bar countdown is live, and it is the one infoTimer refers to.
C15_OneCountdown ==
    /\ Cardinality(countdowns) <= 1
    /\ \A t \in countdowns : t.cur

\* the countdown has been re-armed by two notifications and the initial load
C15_Witness ==
    /\ Cardinality(countdowns) = 1
    /\ notified = 2
    /\ loadPc = "returned"
    /\ idle = 0

Empty == displayedArtwork = None /\ nextArtwork = None
AwaitingFirst == displayedArtwork = None /\ nextArtwork /= None /\ loading /\ ~shown
Steady == displayedArtwork /= None /\ nextArtwork = None
Swapping == displayedArtwork /= None /\ nextArtwork /= None /\ ~loading

AwaitingFirstAmended ==
    /\ displayedArtwork = None
    /\ nextArtwork /= None
    /\ (~shown => loading)

SwappingAmended ==
    /\ displayedArtwork /= None
    /\ nextArtwork /= None
    /\ shown

Latest == IF nextArtwork /= None THEN nextArtwork ELSE displayedArtwork

\* C18: a get_current_artwork response that arrives after a notification does not
\* replace the notification's artwork.
C18_LateResponseIgnored ==
    [][(notified > 0 /\ \E a \in ArtworkIds : LoadSuccess(a)) => Latest'.id = Latest.id]_vars

\* C19: while not recording and not torn down no key listener is attached; a qualifying
\* key sets the working value, ends recording and detaches every listener.
C19_IdleHasNoListener ==
    /\ []((~recording /\ ~panelDestroyed) => listeners = 0)
    /\ [][\A e \in PanelKeyEvents :
             (e.key \notin ModifierKeys /\ onKeyDown(e))
                 => (hotkey' = Normalize(e) /\ ~recording' /\ listeners' = 0)]_vars

\* a qualifying key has ended a capture
C19_Witness ==
    /\ ~recording
    /\ ~panelDestroyed
    /\ listeners = 0
    /\ lastKey = "a"
    /\ hotkey = "A"

\* C20: saved is never true while recording.
C20_NotSavedWhileRecording == recording => ~saved

====
